---------------------------- MODULE Spec2Model ----------------------------
(***************************************************************************)
(* A model of the electoral roll extractor: the record assembler           *)
(* (extractor/text_extractor.py), the field parsers and the table builder  *)
(* (extractor/data_processor.py).                                          *)
(*                                                                         *)
(* A Python str is a sequence of one-character strings, so that the        *)
(* regular expressions, split, strip and lower of the source are computed  *)
(* character by character.  None / NaN in a string cell is the sequence    *)
(* None; a null integer (pd.NA, None) is NA.                               *)
(***************************************************************************)
EXTENDS Integers, Sequences, FiniteSets, TLC

VARIABLES pc, input, required, df, output

vars == <<pc, input, required, df, output>>

-----------------------------------------------------------------------------
(* Bounds of the model.                                                    *)

\* the most lines the OCR engine returns for the main text block
MaxOcrLines == 6
\* the most fragments a parsed text is concatenated from
MaxFrags == 3
\* the most record rectangles of a page, and rows of an input table
MaxRows == 3

-----------------------------------------------------------------------------
(* Characters and the str methods the source uses.                         *)

LowerLetters == <<"a","b","c","d","e","f","g","h","i","j","k","l","m",
                  "n","o","p","q","r","s","t","u","v","w","x","y","z">>
UpperLetters == <<"A","B","C","D","E","F","G","H","I","J","K","L","M",
                  "N","O","P","Q","R","S","T","U","V","W","X","Y","Z">>
DigitChars == <<"0","1","2","3","4","5","6","7","8","9">>

Range(s) == {s[i] : i \in DOMAIN s}
LowerSet == Range(LowerLetters)
UpperSet == Range(UpperLetters)
DigitSet == Range(DigitChars)

\* None / NaN in a cell that otherwise holds a str
None == <<"<None>">>
\* pd.NA / None in an integer column
NA == -1

IsStr(v) == v # None
IsLower(c) == c \in LowerSet
IsUpper(c) == c \in UpperSet
\* [a-zA-Z]
IsAlpha(c) == IsLower(c) \/ IsUpper(c)
\* \d
IsDigit(c) == c \in DigitSet
\* \s
SpaceSet == {" ", "\n", "\t"}
IsSpace(c) == c \in SpaceSet
\* \w
WordSet == LowerSet \cup UpperSet \cup DigitSet \cup {"_"}
IsWord(c) == c \in WordSet

PosIn(c, s) == CHOOSE i \in DOMAIN s : s[i] = c
\* str.lower / str.upper on one character
Lower(c) == IF IsUpper(c) THEN LowerLetters[PosIn(c, UpperLetters)] ELSE c
Upper(c) == IF IsLower(c) THEN UpperLetters[PosIn(c, LowerLetters)] ELSE c
LowerStr(s) == [i \in DOMAIN s |-> Lower(s[i])]
DigitVal(c) == PosIn(c, DigitChars) - 1

SetMin(S) == CHOOSE x \in S : \A y \in S : x <= y
SetMax(S) == CHOOSE x \in S : \A y \in S : y <= x

\* str.strip(chars): the characters of `chars` removed from both ends
StripChars(s, chars) ==
    LET keep == {i \in DOMAIN s : s[i] \notin chars}
    IN  IF keep = {} THEN <<>> ELSE SubSeq(s, SetMin(keep), SetMax(keep))
\* str.strip()
Strip(s) == StripChars(s, {" ", "\n", "\t"})

\* str.split(sep) for a one-character sep: the pieces between the separators,
\* empty pieces included
Split(s, sep) ==
    LET cuts == {0, Len(s) + 1} \cup {i \in DOMAIN s : s[i] = sep}
        cut(k) == CHOOSE p \in cuts : Cardinality({q \in cuts : q < p}) = k
    IN  [k \in 1..(Cardinality(cuts) - 1) |-> SubSeq(s, cut(k - 1) + 1, cut(k) - 1)]

\* str.split(): the maximal runs of non-whitespace characters
Words(s) ==
    LET starts == {i \in DOMAIN s : ~IsSpace(s[i]) /\ (i = 1 \/ IsSpace(s[i - 1]))}
        start(k) == CHOOSE p \in starts : Cardinality({q \in starts : q < p}) = k - 1
        stop(p) == SetMin({j \in p..Len(s) : j = Len(s) \/ IsSpace(s[j + 1])})
    IN  [k \in 1..Cardinality(starts) |-> SubSeq(s, start(k), stop(start(k)))]

\* sep.join(parts)
RECURSIVE Join(_, _)
Join(parts, sep) ==
    IF parts = <<>> THEN <<>>
    ELSE IF Len(parts) = 1 THEN parts[1]
    ELSE parts[1] \o sep \o Join(Tail(parts), sep)

\* re.sub(r'\s+', ' ', s)
CollapseSpaces(s) ==
    LET F[i \in 0..Len(s)] ==
            IF i = 0 THEN <<>>
            ELSE IF ~IsSpace(s[i]) THEN Append(F[i - 1], s[i])
            ELSE IF i > 1 /\ IsSpace(s[i - 1]) THEN F[i - 1]
            ELSE Append(F[i - 1], " ")
    IN  F[Len(s)]

\* whether `pat` occurs in s at position i
At(s, i, pat) ==
    /\ i >= 1
    /\ i + Len(pat) - 1 <= Len(s)
    /\ SubSeq(s, i, i + Len(pat) - 1) = pat
\* pat in s
Contains(s, pat) == \E i \in 1..(Len(s) + 1) : At(s, i, pat)

\* the first position at or after i that holds no character of chars
\* (Len(s) + 1 at the end of s): where a greedy \s*, \d+ or \w+ from i stops
SkipWhile(s, i, chars) ==
    SetMin({j \in i..(Len(s) + 1) : j = Len(s) + 1 \/ s[j] \notin chars})

\* the first position at or after i that holds a line break: where a greedy
\* .* from i stops
SkipLine(s, i) ==
    SetMin({j \in i..(Len(s) + 1) : j = Len(s) + 1 \/ s[j] = "\n"})

\* str.capitalize()
Capitalize(w) ==
    [i \in DOMAIN w |-> IF i = 1 THEN Upper(w[i]) ELSE Lower(w[i])]

\* ' '.join(word.capitalize() for word in name.split())
CapitalizeWords(s) ==
    LET ws == Words(s)
    IN  Join([k \in DOMAIN ws |-> Capitalize(ws[k])], <<" ">>)

\* int(digits) for a non-empty string of digits
StrToInt(ds) ==
    LET F[i \in 0..Len(ds)] ==
            IF i = 0 THEN 0 ELSE 10 * F[i - 1] + DigitVal(ds[i])
    IN  F[Len(ds)]

\* str(n) for an integer n >= 0
RECURSIVE IntToStr(_)
IntToStr(n) ==
    IF n < 10 THEN <<DigitChars[n + 1]>>
    ELSE Append(IntToStr(n \div 10), DigitChars[(n % 10) + 1])

-----------------------------------------------------------------------------
(* text_extractor.py: the record assembler.                                *)

\* the lines a raw record always has
NumLines == 4

\* the outcome of a recognition call that raised inside its try block
Raise == <<"<raise>">>

\* extract_number: the stripped OCR result; "" when the region holds no ink
\* (the engine is then not called: the outcome is the empty string) and ""
\* when anything raised
extract_number(ocr) == IF ocr = Raise THEN <<>> ELSE Strip(ocr)

\* extract_text: the stripped OCR result, "" when anything raised
extract_text(ocr) == IF ocr = Raise THEN <<>> ELSE Strip(ocr)

\* the record of the except branch of process_voter_box
EmptyRecord ==
    [number |-> <<>>, top_right_text |-> <<>>,
     line1 |-> <<>>, line2 |-> <<>>, line3 |-> <<>>, line4 |-> <<>>]

\* a list comprehension that lost its filter
NonBlankLines_unfiltered(text) ==
    LET parts == Split(text, "\n")
    IN  [k \in DOMAIN parts |-> Strip(parts[k])]

\* lines = [line.strip() for line in text.split('\n') if line.strip()]
NonBlankLines(text) ==
    LET parts == Split(text, "\n")
        stripped == [k \in DOMAIN parts |-> Strip(parts[k])]
    IN  SelectSeq(stripped, LAMBDA l : l # <<>>)

\* while len(lines) < 4: lines.append('')
PadLines(lines) ==
    IF Len(lines) < NumLines
    THEN lines \o [k \in 1..(NumLines - Len(lines)) |-> <<>>]
    ELSE lines

\* lines = lines[:4]
TruncateLines(lines) == SubSeq(lines, 1, NumLines)

\* a record assembler in which a recognition call that raises takes the whole
\* record with it
process_voter_box_atomic(box) ==
    IF box.watermark = "raise" \/ Raise \in {box.number, box.top, box.text}
    THEN EmptyRecord
    ELSE LET lines == TruncateLines(PadLines(NonBlankLines(Strip(box.text))))
         IN  [number |-> Strip(box.number), top_right_text |-> Strip(box.top),
              line1 |-> lines[1], line2 |-> lines[2],
              line3 |-> lines[3], line4 |-> lines[4]]

\* process_voter_box on a box whose watermark removal raises or not
\* (box.watermark) and whose three recognition calls have the outcomes
\* box.number, box.top and box.text
process_voter_box(box) ==
    IF box.watermark = "raise" THEN EmptyRecord
    ELSE LET number == extract_number(box.number)
             top_right_text == extract_text(box.top)
             text == extract_text(box.text)
             lines == TruncateLines(PadLines(NonBlankLines(text)))
         IN  [number |-> number, top_right_text |-> top_right_text,
              line1 |-> lines[1], line2 |-> lines[2],
              line3 |-> lines[3], line4 |-> lines[4]]

-----------------------------------------------------------------------------
(* data_processor.py: the field parsers.                                   *)

\* re.sub(r'[^a-zA-Z\s]', '', text)
DropNonAlpha(s) == SelectSeq(s, LAMBDA c : IsAlpha(c) \/ IsSpace(c))

\* re.sub(r'[^a-zA-Z\s]', ' ', text)
BlankNonAlpha(s) ==
    [i \in DOMAIN s |-> IF IsAlpha(s[i]) \/ IsSpace(s[i]) THEN s[i] ELSE " "]

\* re.sub(r'[^a-zA-Z0-9\s-]', ' ', text)
BlankNonAlnum(s) ==
    [i \in DOMAIN s |->
        IF IsAlpha(s[i]) \/ IsDigit(s[i]) \/ IsSpace(s[i]) \/ s[i] = "-"
        THEN s[i] ELSE " "]

extract_and_format_name(text) ==
    IF ~IsStr(text) THEN <<>>
    ELSE LET cleaned == Strip(CollapseSpaces(DropNonAlpha(text)))
             parts == Split(cleaned, " ")
         IN  IF Len(parts) > 1
             THEN CapitalizeWords(Join(Tail(parts), <<" ">>))
             ELSE <<>>

\* re.search(r'(?:name|others)\s*(.*)', cleaned): the positions where the
\* pattern matches, and group(1) of the match found at position i
NameMatches(cleaned) ==
    {i \in DOMAIN cleaned :
        At(cleaned, i, <<"n","a","m","e">>)
            \/ At(cleaned, i, <<"o","t","h","e","r","s">>)}
NameGroup(cleaned, i) ==
    LET after == IF At(cleaned, i, <<"n","a","m","e">>) THEN i + 4 ELSE i + 6
        from == SkipWhile(cleaned, after, SpaceSet)
        upto == SkipLine(cleaned, from)
    IN  SubSeq(cleaned, from, upto - 1)

\* the elif chain with its first two tests exchanged
RelationOf_husbandFirst(cleaned) ==
    IF Contains(cleaned, <<"h","u","s","b","a","n","d">>) THEN "HSBN"
    ELSE IF Contains(cleaned, <<"f","a","t","h","e","r">>) THEN "FTHR"
    ELSE IF Contains(cleaned, <<"o","t","h","e","r","s">>) THEN "OTHR"
    ELSE ""

\* the relation type, by the if / elif chain of extract_name_and_relation
RelationOf(cleaned) ==
    IF Contains(cleaned, <<"f","a","t","h","e","r">>) THEN "FTHR"
    ELSE IF Contains(cleaned, <<"h","u","s","b","a","n","d">>) THEN "HSBN"
    ELSE IF Contains(cleaned, <<"o","t","h","e","r","s">>) THEN "OTHR"
    ELSE ""

\* extract_name_and_relation: [name, relation]
extract_name_and_relation(text) ==
    IF ~IsStr(text) THEN [name |-> <<>>, relation |-> ""]
    ELSE LET cleaned == LowerStr(Strip(CollapseSpaces(BlankNonAlpha(text))))
             m == NameMatches(cleaned)
             name == IF m = {} THEN <<>>
                     ELSE Strip(NameGroup(cleaned, SetMin(m)))
         IN  [name |-> CapitalizeWords(name), relation |-> RelationOf(cleaned)]

\* re.search(r'house\s*number.*?[:\s](.*)', cleaned): the pairs <<i, j>> of a
\* position i where "house", whitespace and "number" match and a position j
\* after them, on the same line, that holds a colon or a whitespace character
HouseMatches(cleaned) ==
    {p \in (DOMAIN cleaned) \X (DOMAIN cleaned) :
        /\ At(cleaned, p[1], <<"h","o","u","s","e">>)
        /\ LET n == SkipWhile(cleaned, p[1] + 5, SpaceSet)
           IN  /\ At(cleaned, n, <<"n","u","m","b","e","r">>)
               /\ p[2] >= n + 6
               /\ cleaned[p[2]] = ":" \/ IsSpace(cleaned[p[2]])
               /\ \A k \in (n + 6)..p[2] : cleaned[k] # "\n" \/ k = p[2]}
\* the match re.search returns: the leftmost start, and from it the shortest
\* lazy .*?
HouseFirst(cleaned) ==
    LET m == HouseMatches(cleaned)
        i == SetMin({p[1] : p \in m})
        j == SetMin({p[2] : p \in {q \in m : q[1] = i}})
    IN  <<i, j>>
HouseGroup(cleaned, j) ==
    SubSeq(cleaned, j + 1, SkipLine(cleaned, j + 1) - 1)

extract_house_number(text) ==
    IF ~IsStr(text) THEN <<>>
    ELSE LET cleaned == LowerStr(Strip(CollapseSpaces(BlankNonAlnum(text))))
         IN  IF HouseMatches(cleaned) = {} THEN <<>>
             ELSE LET entry == Strip(HouseGroup(cleaned, HouseFirst(cleaned)[2]))
                  IN  IF entry \in {<<>>, <<"-">>} THEN entry
                      ELSE StripChars(entry, {" ", "-"})

\* Python values handed to clean_number
PyNone == [type |-> "NoneType"]
PyNA == [type |-> "NAType"]
PyStr(s) == [type |-> "str", s |-> s]
PyInt(n) == [type |-> "int", n |-> n]
\* a float >= 0 whose repr is the digits of `whole`, a point, and `frac`
PyFloat(whole, frac) == [type |-> "float", whole |-> whole, frac |-> frac]
\* a float NaN
PyNaN == [type |-> "nan"]

\* pd.isna(value) for a scalar
pd_isna(value) == value.type \in {"NoneType", "NAType", "nan"}

\* str(value)
py_str(value) ==
    CASE value.type = "str" -> value.s
      [] value.type = "int" ->
            IF value.n < 0 THEN <<"-">> \o IntToStr(-value.n) ELSE IntToStr(value.n)
      [] value.type = "float" -> IntToStr(value.whole) \o <<".">> \o value.frac

\* re.sub(r'\D', '', s)
DropNonDigits(s) == SelectSeq(s, IsDigit)

\* clean_number without the cut at the decimal point
clean_number_uncut(value) ==
    IF pd_isna(value) THEN NA
    ELSE LET cleaned == DropNonDigits(py_str(value))
         IN  IF cleaned # <<>> THEN StrToInt(cleaned) ELSE NA

clean_number(value) ==
    IF pd_isna(value) THEN NA
    ELSE LET value_str == py_str(value)
             before_decimal == Split(value_str, ".")[1]
             cleaned == DropNonDigits(before_decimal)
         IN  IF cleaned # <<>> THEN StrToInt(cleaned) ELSE NA

\* a separator class that lost the letter l
IsSeparator_noL(c) == c \in {":", "!", "+"}

\* the separator class [:!l+] under re.IGNORECASE
IsSeparator(c) == Lower(c) \in {":", "!", "l", "+"}

\* the class [ee] of the pattern of extract_age under re.IGNORECASE
IsAgeLetter(c) == Lower(c) \in {"e", "e"}

\* re.search(r'Ag[ee]\s*[:!l+]\s*(\d+)', text, re.IGNORECASE): the positions
\* where the pattern matches; AgeDigits is where group(1) of the match at i
\* starts
AgeDigits(text, i) ==
    SkipWhile(text, SkipWhile(text, i + 3, SpaceSet) + 1, SpaceSet)
AgeMatches(text) ==
    {i \in DOMAIN text :
        /\ i + 2 <= Len(text)
        /\ LowerStr(SubSeq(text, i, i + 1)) = <<"a","g">>
        /\ IsAgeLetter(text[i + 2])
        /\ LET s == SkipWhile(text, i + 3, SpaceSet)
           IN  /\ s <= Len(text)
               /\ IsSeparator(text[s])
               /\ AgeDigits(text, i) <= Len(text)
               /\ IsDigit(text[AgeDigits(text, i)])}

extract_age(text) ==
    IF ~IsStr(text) THEN NA
    ELSE IF AgeMatches(text) = {} THEN NA
    ELSE LET d == AgeDigits(text, SetMin(AgeMatches(text)))
         IN  StrToInt(SubSeq(text, d, SkipWhile(text, d, DigitSet) - 1))

\* the class [de] of the pattern of extract_gender under re.IGNORECASE
IsGenderLetter(c) == Lower(c) \in {"d", "e"}

\* re.search(r'Gen[de]r\s*[:!l+]\s*(\w+)', text, re.IGNORECASE): the positions
\* where the pattern matches; GenderWord is where group(1) of the match at i
\* starts
GenderWord(text, i) ==
    SkipWhile(text, SkipWhile(text, i + 5, SpaceSet) + 1, SpaceSet)
GenderMatches(text) ==
    {i \in DOMAIN text :
        /\ i + 4 <= Len(text)
        /\ LowerStr(SubSeq(text, i, i + 2)) = <<"g","e","n">>
        /\ IsGenderLetter(text[i + 3])
        /\ Lower(text[i + 4]) = "r"
        /\ LET s == SkipWhile(text, i + 5, SpaceSet)
           IN  /\ s <= Len(text)
               /\ IsSeparator(text[s])
               /\ GenderWord(text, i) <= Len(text)
               /\ IsWord(text[GenderWord(text, i)])}

\* re.search(r'\b' + pat, lowered) for a pat that starts with a letter
WordInitial(lowered, pat) ==
    \E i \in DOMAIN lowered :
        At(lowered, i, pat) /\ (i = 1 \/ ~IsWord(lowered[i - 1]))

\* the result when no gender is found
GenderNone == "None"

\* the lenient tier of extract_gender
GenderFallback(text) ==
    IF WordInitial(LowerStr(text), <<"m","a">>) THEN "M"
    ELSE IF WordInitial(LowerStr(text), <<"f","e">>) THEN "F"
    ELSE GenderNone

extract_gender(text) ==
    IF ~IsStr(text) THEN GenderNone
    ELSE IF GenderMatches(text) = {} THEN GenderFallback(text)
    ELSE LET w == GenderWord(text, SetMin(GenderMatches(text)))
             gender == LowerStr(SubSeq(text, w, SkipWhile(text, w, WordSet) - 1))
         IN  IF Contains(gender, <<"m","a">>) THEN "M"
             ELSE IF Contains(gender, <<"f","e">>) THEN "F"
             ELSE GenderFallback(text)

-----------------------------------------------------------------------------
(* data_processor.py: the table builder.  A table is [columns, rows]: the  *)
(* set of its column names and the sequence of its rows, each a record     *)
(* with one field per column.  The columns of a raw record hold a str or   *)
(* None.                                                                   *)

\* the columns of a raw record
RawColumns == {"number", "top_right_text", "line1", "line2", "line3", "line4"}

\* what process_raw_data leaves when an exception reaches its except branch,
\* which raises it again
Raised == [raised |-> TRUE, rows |-> <<>>]

\* a test for null that takes the empty string for null
IsNullCell_orEmpty(v) == v = None \/ v = <<>>

\* pandas' isna on a cell of a raw column
IsNullCell(v) == v = None

\* dropna(how='any'): a row is dropped when any of the columns is null
dropna_any(rows, subset) ==
    SelectSeq(rows, LAMBDA r : \A c \in subset : ~IsNullCell(r[c]))

\* a table builder that lost its filter
dropna_nothing(rows, subset) == rows

\* df.dropna(subset=required_columns, how='all'): the rows with a column of
\* the subset that is not null, in their order
dropna_all(rows, subset) ==
    SelectSeq(rows, LAMBDA r : \E c \in subset : ~IsNullCell(r[c]))

\* Series.str.replace(r'[^A-Z0-9]', '', regex=True) on one cell: a null cell
\* stays null
EpicNo(v) ==
    IF IsNullCell(v) THEN None
    ELSE SelectSeq(v, LAMBDA c : IsUpper(c) \/ IsDigit(c))

\* the value of a cell as clean_number receives it
CellValue(v) == IF IsNullCell(v) THEN PyNone ELSE PyStr(v)

\* the row of processed_df built from row r of filtered_df, whose index
\* label (after reset_index) is idx
ParsedRecord(r, idx) ==
    LET relative == extract_name_and_relation(r.line2)
    IN  [index |-> idx,
         EPIC_No |-> EpicNo(r.top_right_text),
         Voter_Full_Name |-> extract_and_format_name(r.line1),
         Relatives_Name |-> relative.name,
         Relation_Type |-> relative.relation,
         House_No |-> extract_house_number(r.line3),
         Part_SNo |-> clean_number(CellValue(r.number)),
         Age |-> extract_age(r.line4),
         Gender |-> extract_gender(r.line4)]

\* the rows after one more row is put behind those whose key is not greater
RECURSIVE InsertByKey(_, _)
InsertByKey(sorted, row) ==
    IF sorted = <<>> THEN <<row>>
    ELSE IF Head(sorted).Part_SNo <= row.Part_SNo
         THEN <<Head(sorted)>> \o InsertByKey(Tail(sorted), row)
         ELSE <<row>> \o sorted

RECURSIVE InsertionSort(_)
InsertionSort(rows) ==
    IF rows = <<>> THEN <<>>
    ELSE InsertByKey(InsertionSort(SubSeq(rows, 1, Len(rows) - 1)), rows[Len(rows)])

\* a sort that lost its call: the rows stay in the order of filtered_df
sort_values_unsorted(rows) == rows

\* processed_df.sort_values(by='Part S.No', ascending=True): the rows with a
\* serial number in ascending order, then (na_position='last') the rows
\* without one in their order.  The sort of so few rows is an insertion sort.
sort_values(rows) ==
    InsertionSort(SelectSeq(rows, LAMBDA r : r.Part_SNo # NA))
        \o SelectSeq(rows, LAMBDA r : r.Part_SNo = NA)

\* an assignment that pairs the rows from opposite ends
WithProvenance_reversed(columns, row, filtered) ==
    LET src == filtered[Len(filtered) - row.index]
        paged == IF "page" \in columns THEN row @@ [Page |-> src.page] ELSE row
    IN  IF "box" \in columns THEN paged @@ [Box |-> src.box] ELSE paged

\* processed_df['Page'] = filtered_df['page'], and the same for 'box': the
\* assignment of a Series aligns on the index label
WithProvenance(columns, row, filtered) ==
    LET src == filtered[row.index + 1]
        paged == IF "page" \in columns THEN row @@ [Page |-> src.page] ELSE row
    IN  IF "box" \in columns THEN paged @@ [Box |-> src.box] ELSE paged

\* process_raw_data(df, required_columns): the rows of the table it returns,
\* or Raised.  A required column that df lacks raises KeyError in dropna, a
\* missing raw column raises KeyError where it is read, and a filtered_df
\* without rows makes zip(*...) yield nothing, so that the assignment to two
\* targets raises ValueError.
process_raw_data(frame, required_columns) ==
    IF ~(required_columns \subseteq frame.columns) THEN Raised
    ELSE IF ~(RawColumns \subseteq frame.columns) THEN Raised
    ELSE LET filtered == dropna_all(frame.rows, required_columns)
             processed == [i \in DOMAIN filtered |-> ParsedRecord(filtered[i], i - 1)]
             sorted == sort_values(processed)
         IN  IF filtered = <<>> THEN Raised
             ELSE [raised |-> FALSE,
                   rows |-> [i \in DOMAIN sorted |->
                                WithProvenance(frame.columns, sorted[i], filtered)]]

-----------------------------------------------------------------------------
(* The inputs the specifications draw from.                                *)

\* the sequences of at most n elements of S
SeqsUpTo(S, n) == UNION {[1..k -> S] : k \in 0..n}

\* the concatenation of a sequence of strings
Concat(parts) == Join(parts, <<>>)

\* a table with no row
EmptyFrame == [columns |-> RawColumns, rows |-> <<>>]

\* what one printed line of the main text block may be recognised as
LinePool == {<<>>, <<" ">>, <<"a">>, <<" ","b"," ">>}

\* the engine's result for a text block showing these lines
OcrText(lines) == Join(lines, <<"\n">>)

\* the boxes of the record assembler's specification: the watermark removal
\* raises or not, and the recognition of the main text block returns any
\* lines of LinePool or raises
LineBoxes ==
    {[watermark |-> w, number |-> <<" ","7">>, top |-> <<"X","1","\n">>,
      text_call |-> "ok", lines |-> ls] :
        w \in {"ok", "raise"}, ls \in SeqsUpTo(LinePool, MaxOcrLines)}
    \cup
    {[watermark |-> w, number |-> <<" ","7">>, top |-> <<"X","1","\n">>,
      text_call |-> "raise", lines |-> <<>>] : w \in {"ok", "raise"}}

BoxOf(b) ==
    [watermark |-> b.watermark, number |-> b.number, top |-> b.top,
     text |-> IF b.text_call = "raise" THEN Raise ELSE OcrText(b.lines)]

\* the texts made of at most MaxFrags fragments of a pool
TextsOf(frags) == {Concat(fs) : fs \in SeqsUpTo(frags, MaxFrags)}

\* fragments of a second line (the relative's name)
RelationFrags ==
    {<<"F","a","t","h","e","r">>,
     <<"h","u","s","b","a","n","d">>,
     <<"o","t","h","e","r","s">>,
     <<"N","a","m","e">>,
     <<"f","a">>,
     <<"t","h","e","r">>,
     <<" ">>,
     <<"-">>,
     <<"r","a","m">>}

\* fragments of a serial number cell
NumberFrags ==
    {<<"1","2">>,
     <<"9">>,
     <<".">>,
     <<"a","b","c">>,
     <<"0">>,
     <<"-">>,
     <<" ">>,
     <<"7">>}

\* fragments of a third line (the house number)
HouseFrags ==
    {<<"H","o","u","s","e"," ","N","u","m","b","e","r">>,
     <<":"," ">>,
     <<" ">>,
     <<"-">>,
     <<"1","2","-","A">>,
     <<"7">>,
     <<"x","y"," ">>,
     <<":">>}

\* fragments of a fourth line, for the age
AgeFrags ==
    {<<"A","g","e">>,
     <<"A","g">>,
     <<"a","G","E">>,
     <<":"," ">>,
     <<"l"," ">>,
     <<"+">>,
     <<"4","5">>,
     <<"7">>,
     <<"x">>,
     <<" ">>}

\* fragments of a fourth line, for the gender
GenderFrags ==
    {<<"G","e","n","d","e","r",":"," ">>,
     <<"G","e","n","d","r",":"," ">>,
     <<"G","e","n","r","!"," ">>,
     <<"M","a","l","e">>,
     <<"F","e","m","a","l","e">>,
     <<"F","e","m">>,
     <<"M","a","r","k"," ">>,
     <<"x">>,
     <<" ">>}

\* the values handed to clean_number
NumberValues ==
    {PyNone, PyNA, PyNaN, PyFloat(12, <<"9">>), PyFloat(0, <<"5">>)}
    \cup {PyInt(n) : n \in {-12, 0, 7, 120}}
    \cup {PyStr(t) : t \in TextsOf(NumberFrags)}

\* a record read in full
FullBox ==
    [watermark |-> "ok",
     number |-> <<" ","5","\n">>,
     top |-> <<"A","B","1">>,
     text |-> <<"N","a","m","e",":"," ","R","a","m","\n","F","a","t","h","e","r"," ","N","a","m","e",":"," ","L","a","l","\n","H","o","u","s","e"," ","N","u","m","b","e","r",":"," ","1","2","\n","A","g","e",":"," ","4","5"," ","G","e","n","d","e","r",":"," ","M","a","l","e">>]

\* the same record when the watermark removal raises
FailedBox ==
    [watermark |-> "raise",
     number |-> <<" ","5","\n">>,
     top |-> <<"A","B","1">>,
     text |-> <<"N","a","m","e",":"," ","R","a","m","\n","F","a","t","h","e","r"," ","N","a","m","e",":"," ","L","a","l","\n","H","o","u","s","e"," ","N","u","m","b","e","r",":"," ","1","2","\n","A","g","e",":"," ","4","5"," ","G","e","n","d","e","r",":"," ","M","a","l","e">>]

\* a record with two lines of text and a blank one between them
ShortBox ==
    [watermark |-> "ok",
     number |-> <<"1">>,
     top |-> <<"c","d","2"," ">>,
     text |-> <<"N","a","m","e"," ","S","i","t","a","\n"," ","\n","H","u","s","b","a","n","d"," ","N","a","m","e"," ","O","m","\n">>]

\* a record whose number recognition raises
NoNumberBox ==
    [watermark |-> "ok",
     number |-> Raise,
     top |-> <<"E","F","3">>,
     text |-> <<"N","a","m","e"," ",":"," ","G","i","t","a">>]

\* a record in which nothing is recognised
BlankBox ==
    [watermark |-> "ok",
     number |-> <<>>,
     top |-> <<>>,
     text |-> <<>>]

BoxPool == {FullBox, FailedBox, ShortBox, NoNumberBox, BlankBox}

\* the pages: at least one record rectangle and at most MaxRows
Pages == SeqsUpTo(BoxPool, MaxRows) \ {<<>>}

\* rows of an input table: the record of FullBox
Row5 ==
    [number |-> <<"5">>,
     top_right_text |-> <<"A","B","1">>,
     line1 |-> <<"N","a","m","e",":"," ","R","a","m">>,
     line2 |-> <<"F","a","t","h","e","r"," ","N","a","m","e",":"," ","L","a","l">>,
     line3 |-> <<"H","o","u","s","e"," ","N","u","m","b","e","r",":"," ","1","2">>,
     line4 |-> <<"A","g","e",":"," ","4","5"," ","G","e","n","d","e","r",":"," ","M","a","l","e">>]

\* a row with null cells
Row1 ==
    [number |-> <<"1">>,
     top_right_text |-> None,
     line1 |-> <<"N","a","m","e"," ","S","i","t","a">>,
     line2 |-> <<"H","u","s","b","a","n","d"," ","N","a","m","e"," ","O","m">>,
     line3 |-> <<>>,
     line4 |-> None]

\* a row with a serial number and empty strings
Row3 ==
    [number |-> <<"3">>,
     top_right_text |-> <<>>,
     line1 |-> <<>>,
     line2 |-> <<>>,
     line3 |-> <<>>,
     line4 |-> <<>>]

\* a row of nulls
RowNull ==
    [number |-> None,
     top_right_text |-> None,
     line1 |-> None,
     line2 |-> None,
     line3 |-> None,
     line4 |-> None]

\* a row without serial number
RowNoNumber ==
    [number |-> None,
     top_right_text |-> <<"E","F","3">>,
     line1 |-> <<"N","a","m","e"," ",":"," ","G","i","t","a">>,
     line2 |-> None,
     line3 |-> None,
     line4 |-> None]

\* a row whose serial number has no digit
RowBadNumber ==
    [number |-> <<"a","b","c">>,
     top_right_text |-> <<"G","H","4">>,
     line1 |-> None,
     line2 |-> None,
     line3 |-> None,
     line4 |-> <<"A","g","e","+","7">>]

RowPool == {Row5, Row1, Row3, EmptyRecord, RowNull, RowNoNumber, RowBadNumber}

\* the lists of required columns
RequiredChoices == SUBSET {"number", "top_right_text", "line4"} \cup {RawColumns}

\* the input tables: at most MaxRows rows of RowPool, without provenance
\* columns or with the page (two rows to a page) and the box of each row
Frames ==
    {[columns |-> RawColumns, rows |-> rs] : rs \in SeqsUpTo(RowPool, MaxRows)}
    \cup
    {[columns |-> RawColumns \cup {"page", "box"},
      rows |-> [i \in DOMAIN rs |-> rs[i] @@ [page |-> (i + 1) \div 2, box |-> i]]] :
        rs \in SeqsUpTo(RowPool, MaxRows)}

-----------------------------------------------------------------------------
(* The record assembler on one box.                                        *)

InitLines ==
    /\ pc = "box"
    /\ input \in LineBoxes
    /\ required = {}
    /\ df = EmptyFrame
    /\ output = EmptyRecord

ProcessVoterBox ==
    /\ pc = "box"
    /\ output' = process_voter_box(BoxOf(input))
    /\ pc' = "done"
    /\ UNCHANGED <<input, required, df>>

NextLines == ProcessVoterBox

SpecLines == InitLines /\ [][NextLines]_vars

-----------------------------------------------------------------------------
(* A page: its record rectangles one after another, then the table.        *)

Init ==
    /\ pc = "boxes"
    /\ input \in Pages
    /\ required \in RequiredChoices \ {{}}
    /\ df = EmptyFrame
    /\ output = Raised

\* process_voter_box on the next record rectangle; its record is the next
\* row of the table
ProcessBox ==
    /\ pc = "boxes"
    /\ Len(df.rows) < Len(input)
    /\ df' = [df EXCEPT !.rows = Append(@, process_voter_box(input[Len(df.rows) + 1]))]
    /\ pc' = IF Len(df.rows) + 1 = Len(input) THEN "table" ELSE "boxes"
    /\ UNCHANGED <<input, required, output>>

\* process_raw_data on the table
BuildTable ==
    /\ pc = "table"
    /\ output' = process_raw_data(df, required)
    /\ pc' = "done"
    /\ UNCHANGED <<input, required, df>>

Next == ProcessBox \/ BuildTable

Spec == Init /\ [][Next]_vars

(* The table builder on any table.                                         *)

InitTable ==
    /\ pc = "table"
    /\ input = <<>>
    /\ required \in RequiredChoices
    /\ df \in Frames
    /\ output = Raised

NextTable == BuildTable

SpecTable == InitTable /\ [][NextTable]_vars

-----------------------------------------------------------------------------
(* The table: which rows it has, and in which order.                       *)

\* the k-th smallest element of a set of numbers
KthOf(S, k) == CHOOSE x \in S : Cardinality({y \in S : y < x}) = k - 1

\* the rows of the input table with a required column that is not null
KeptPositions == {i \in DOMAIN df.rows : \E c \in required : df.rows[i][c] # None}
\* the rows of the input table whose required columns are all null
NullPositions == {i \in DOMAIN df.rows : \A c \in required : df.rows[i][c] = None}
\* the rows of the input table whose required columns are all null or empty
BlankPositions ==
    {i \in DOMAIN df.rows : \A c \in required : df.rows[i][c] \in {None, <<>>}}

\* the row of the input table an output row was built from: reset_index
\* numbers the rows that are kept from 0, in their order
SourceOf(row) == KthOf(KeptPositions, row.index + 1)

\* the extracted columns of an output row
Extracted(row) ==
    <<row.EPIC_No, row.Voter_Full_Name, row.Relatives_Name, row.Relation_Type,
      row.House_No, row.Part_SNo, row.Age, row.Gender>>
\* the extracted columns of a row in which nothing was extracted
NothingExtracted == <<<<>>, <<>>, <<>>, "", <<>>, NA, NA, GenderNone>>
\* the extracted columns of the record of FullBox
FullExtracted ==
    <<<<"A","B","1">>, <<"R","a","m">>, <<"L","a","l">>, "FTHR",
      <<"1","2">>, 5, 45, "M">>
\* the extracted columns of the record of ShortBox
ShortExtracted ==
    <<<<"2">>, <<"S","i","t","a">>, <<"O","m">>, "HSBN", <<>>, 1, NA, GenderNone>>

\* the output rows built from row i of the input table
RowsFrom(i) ==
    {j \in DOMAIN output.rows :
        output.rows[j].index + 1 \in 1..Cardinality(KeptPositions)
            /\ SourceOf(output.rows[j]) = i}

\* C1: a page of n record rectangles, any of which raise in remove_watermark,
\* yields a table of exactly n rows: one row for each rectangle, with nothing
\* in any extracted column for a rectangle that raised, and with the fields
\* of the record for one that did not.
C1_PageRows ==
    pc = "done" =>
        /\ ~output.raised
        /\ Len(output.rows) = Len(input)
        /\ \A i \in DOMAIN input :
            /\ Cardinality(RowsFrom(i)) = 1
            /\ \A j \in RowsFrom(i) :
                /\ input[i].watermark = "raise" =>
                        Extracted(output.rows[j]) = NothingExtracted
                /\ input[i] = FullBox => Extracted(output.rows[j]) = FullExtracted
                /\ input[i] = ShortBox => Extracted(output.rows[j]) = ShortExtracted

\* C1 happens: three rectangles, one of which raised, and three rows
C1_Witness ==
    /\ pc = "done"
    /\ Len(input) = 3
    /\ Cardinality({i \in DOMAIN input : input[i].watermark = "raise"}) = 1
    /\ \E i \in DOMAIN input : input[i] = FullBox
    /\ \E i \in DOMAIN input : input[i] = ShortBox
    /\ Len(output.rows) = 3
    /\ \E j \in DOMAIN output.rows : Extracted(output.rows[j]) = NothingExtracted

\* C2: process_raw_data drops no row that has a value in a required column:
\* each such row of the input is the source of exactly one output row, which
\* holds what the parsers extract from it (and its box, when the table has
\* one), and the output has no other row.
C2_KeepsRowsWithValue ==
    pc = "done" =>
        /\ KeptPositions # {} => ~output.raised
        /\ ~output.raised =>
            /\ Len(output.rows) = Cardinality(KeptPositions)
            /\ \A i \in KeptPositions :
                /\ Cardinality(RowsFrom(i)) = 1
                /\ \A j \in RowsFrom(i) :
                    /\ Extracted(output.rows[j]) = Extracted(ParsedRecord(df.rows[i], 0))
                    /\ "box" \in df.columns => output.rows[j].Box = i

\* C2 happens: a row with a value in one required column and null in the
\* others is kept, while another row is dropped
C2_Witness ==
    /\ pc = "done"
    /\ ~output.raised
    /\ required = {"number", "top_right_text", "line4"}
    /\ Len(output.rows) < Len(df.rows)
    /\ \E i \in KeptPositions : df.rows[i] = Row1

\* C3, as amended: process_raw_data drops every row whose required columns
\* are all null (None, NaN): no output row is built from one.  The empty
\* string is no null: a row whose required columns hold the empty string, or
\* some of them the empty string and the others null, is kept like any row
\* with a value.
C3_DropsNullRows ==
    (pc = "done" /\ ~output.raised) =>
        /\ \A j \in DOMAIN output.rows :
              /\ output.rows[j].index + 1 \in 1..Cardinality(KeptPositions)
              /\ SourceOf(output.rows[j]) \notin NullPositions
        /\ \A i \in BlankPositions \ NullPositions : Cardinality(RowsFrom(i)) = 1
        /\ "box" \in df.columns =>
              {output.rows[j].Box : j \in DOMAIN output.rows}
                  = (DOMAIN df.rows) \ NullPositions

\* C3 happens: a row of nulls is dropped and the record of a failed box,
\* all empty strings, is kept
C3_Witness ==
    /\ pc = "done"
    /\ ~output.raised
    /\ required = RawColumns
    /\ \E i \in NullPositions : df.rows[i] = RowNull
    /\ \E i \in BlankPositions \ NullPositions :
          df.rows[i] = EmptyRecord /\ RowsFrom(i) # {}

\* C3 as the claim states it: no output row is built from a row whose
\* required columns are all null or the empty string.
C3_DropsEmptyRows ==
    (pc = "done" /\ ~output.raised) =>
        \A j \in DOMAIN output.rows : SourceOf(output.rows[j]) \notin BlankPositions

\* the serial numbers of the output, in its order
Serials == [j \in DOMAIN output.rows |-> output.rows[j].Part_SNo]

\* C4: when every retained row has a serial number, the output rows are the
\* retained rows, each once, in non-decreasing order of Part S.No; the
\* serial numbers 5, 1, 3 come out as 1, 3, 5.
C4_SortedBySerial ==
    (pc = "done" /\ ~output.raised /\ \A j \in DOMAIN Serials : Serials[j] # NA) =>
        /\ \A j, k \in DOMAIN Serials : j < k => Serials[j] <= Serials[k]
        /\ Len(output.rows) = Cardinality(KeptPositions)
        /\ {output.rows[j].index : j \in DOMAIN output.rows}
              = 0..(Cardinality(KeptPositions) - 1)
        /\ \A j \in DOMAIN output.rows :
              Extracted(output.rows[j])
                  = Extracted(ParsedRecord(df.rows[SourceOf(output.rows[j])], 0))
        /\ (KeptPositions = DOMAIN df.rows
              /\ [i \in DOMAIN df.rows |-> df.rows[i].number] = <<<<"5">>, <<"1">>, <<"3">>>>)
              => Serials = <<1, 3, 5>>

\* C4 happens: the serial numbers 5, 1, 3 in the order 1, 3, 5
C4_Witness ==
    /\ pc = "done"
    /\ ~output.raised
    /\ [i \in DOMAIN df.rows |-> df.rows[i].number] = <<<<"5">>, <<"1">>, <<"3">>>>
    /\ Serials = <<1, 3, 5>>
    /\ [j \in DOMAIN output.rows |-> output.rows[j].index] = <<1, 2, 0>>

-----------------------------------------------------------------------------
(* The record assembler's lines.                                           *)

\* the lines of ls that hold a character other than whitespace
NonBlankIdx(ls) == {i \in DOMAIN ls : \E j \in DOMAIN ls[i] : ~IsSpace(ls[i][j])}
\* the k-th of them
KthNonBlank(ls, k) ==
    CHOOSE i \in NonBlankIdx(ls) : Cardinality({j \in NonBlankIdx(ls) : j < i}) = k - 1
LinesOfRecord(r) == <<r.line1, r.line2, r.line3, r.line4>>

\* the most lines of the main text block of a box whose recognition calls
\* may each raise
MaxRecordLines == 2

\* the boxes whose steps may each raise: the watermark removal, the
\* recognition of the number, of the top right text and of the main block
RecordBoxes ==
    {[watermark |-> w, number |-> n, top |-> t, text_call |-> c, lines |-> ls] :
        w \in {"ok", "raise"},
        n \in {Raise, <<" ","7">>, <<>>},
        t \in {Raise, <<"X","1","\n">>, <<>>},
        c \in {"ok", "raise"},
        ls \in SeqsUpTo(LinePool, MaxRecordLines)}

InitRecord ==
    /\ pc = "box"
    /\ input \in RecordBoxes
    /\ required = {}
    /\ df = EmptyFrame
    /\ output = EmptyRecord

NextRecord == ProcessVoterBox

SpecRecord == InitRecord /\ [][NextRecord]_vars

\* the steps of a box that raised
RaisedSteps(b) ==
    {st \in {"watermark", "number", "top", "text"} :
        \/ st = "watermark" /\ b.watermark = "raise"
        \/ st = "number" /\ b.number = Raise
        \/ st = "top" /\ b.top = Raise
        \/ st = "text" /\ b.text_call = "raise"}

\* C11 as stated: an exception in any one of the watermark removal, the
\* number recognition and the text recognition gives the record with all six
\* fields empty; no record has some fields recognised and others blanked by
\* a recognition step that raised.
C11_AllOrNothing ==
    (pc = "done" /\ RaisedSteps(input) # {}) => output = EmptyRecord

\* C11: an exception of the watermark removal (a step of process_voter_box
\* itself) gives the record with all six fields empty; an exception inside
\* extract_number or extract_text is caught in that function, which returns
\* the empty string: the field (the four lines, for the main block) that the
\* call was to fill is empty and every other field holds what was
\* recognised for it.
C11_FieldwiseRecovery ==
    pc = "done" =>
        /\ DOMAIN output = RawColumns
        /\ input.watermark = "raise" => output = EmptyRecord
        /\ input.watermark = "ok" =>
            /\ output.number =
                    (IF input.number = Raise THEN <<>> ELSE Strip(input.number))
            /\ output.top_right_text =
                    (IF input.top = Raise THEN <<>> ELSE Strip(input.top))
            /\ \A k \in 1..NumLines :
                    LinesOfRecord(output)[k] =
                        IF input.text_call = "ok"
                              /\ k <= Cardinality(NonBlankIdx(input.lines))
                        THEN Strip(input.lines[KthNonBlank(input.lines, k)])
                        ELSE <<>>

\* C11 happens: the number recognition raised, and the record has no number
\* but the top right text and the lines that were recognised
C11_Witness ==
    /\ pc = "done"
    /\ RaisedSteps(input) = {"number"}
    /\ output.number = <<>>
    /\ output.top_right_text = <<"X","1">>
    /\ output.line1 = <<"a">>
    /\ output.line2 = <<"b">>

\* C5: whatever the engine returns for the main text block, and on the except
\* path too, the record has exactly the six keys; when nothing raised, line k
\* is the k-th non-blank line, trimmed, for k up to the number of non-blank
\* lines and the empty string beyond, and a fifth or later non-blank line is
\* in no field; when the watermark removal or the recognition raised, every
\* line is the empty string.
C5_FourLines ==
    pc = "done" =>
        /\ DOMAIN output = RawColumns
        /\ Len(LinesOfRecord(output)) = NumLines
        /\ IF input.watermark = "raise" \/ input.text_call = "raise"
           THEN \A k \in 1..NumLines : LinesOfRecord(output)[k] = <<>>
           ELSE \A k \in 1..NumLines :
                    LinesOfRecord(output)[k] =
                        IF k <= Cardinality(NonBlankIdx(input.lines))
                        THEN Strip(input.lines[KthNonBlank(input.lines, k)])
                        ELSE <<>>

\* C5 happens: more than four non-blank lines with a blank one among the
\* first four, and the fourth field is the fifth line of the block
C5_Witness ==
    /\ pc = "done"
    /\ input.watermark = "ok"
    /\ input.text_call = "ok"
    /\ Cardinality(NonBlankIdx(input.lines)) > NumLines
    /\ KthNonBlank(input.lines, NumLines) = NumLines + 1
    /\ output.line4 = <<"b">>
    /\ output.line1 = <<"a">>

-----------------------------------------------------------------------------
(* The field parsers, each on one input.                                   *)

InitRelation ==
    /\ pc = "relation"
    /\ input \in TextsOf(RelationFrags) \cup {None}
    /\ required = {}
    /\ df = EmptyFrame
    /\ output = [name |-> <<>>, relation |-> ""]

ExtractNameAndRelation ==
    /\ pc = "relation"
    /\ output' = extract_name_and_relation(input)
    /\ pc' = "done"
    /\ UNCHANGED <<input, required, df>>

NextRelation == ExtractNameAndRelation

SpecRelation == InitRelation /\ [][NextRelation]_vars

InitNumber ==
    /\ pc = "number"
    /\ input \in NumberValues
    /\ required = {}
    /\ df = EmptyFrame
    /\ output = <<>>

\* the Python value clean_number returned
AsValue(n) == IF n = NA THEN PyNA ELSE PyInt(n)

\* clean_number on the input, and then on its own result
CleanNumber ==
    /\ pc = "number"
    /\ output' = Append(output,
                        clean_number(IF output = <<>> THEN input
                                     ELSE AsValue(output[Len(output)])))
    /\ pc' = IF output = <<>> THEN "number" ELSE "done"
    /\ UNCHANGED <<input, required, df>>

NextNumber == CleanNumber

SpecNumber == InitNumber /\ [][NextNumber]_vars

InitHouse ==
    /\ pc = "house"
    /\ input \in TextsOf(HouseFrags) \cup {None}
    /\ required = {}
    /\ df = EmptyFrame
    /\ output = <<>>

ExtractHouseNumber ==
    /\ pc = "house"
    /\ output' = extract_house_number(input)
    /\ pc' = "done"
    /\ UNCHANGED <<input, required, df>>

NextHouse == ExtractHouseNumber

SpecHouse == InitHouse /\ [][NextHouse]_vars

InitAge ==
    /\ pc = "age"
    /\ input \in TextsOf(AgeFrags) \cup {None}
    /\ required = {}
    /\ df = EmptyFrame
    /\ output = NA

ExtractAge ==
    /\ pc = "age"
    /\ output' = extract_age(input)
    /\ pc' = "done"
    /\ UNCHANGED <<input, required, df>>

NextAge == ExtractAge

SpecAge == InitAge /\ [][NextAge]_vars

InitGender ==
    /\ pc = "gender"
    /\ input \in TextsOf(GenderFrags) \cup {None}
    /\ required = {}
    /\ df = EmptyFrame
    /\ output = GenderNone

ExtractGender ==
    /\ pc = "gender"
    /\ output' = extract_gender(input)
    /\ pc' = "done"
    /\ UNCHANGED <<input, required, df>>

NextGender == ExtractGender

SpecGender == InitGender /\ [][NextGender]_vars

-----------------------------------------------------------------------------
(* The relation type.                                                      *)

\* the letters of w stand side by side in text, in any case
HasLetters(text, w) == \E i \in DOMAIN text : At(LowerStr(text), i, w)

RelationByPriority(text) ==
    IF HasLetters(text, <<"f","a","t","h","e","r">>) THEN "FTHR"
    ELSE IF HasLetters(text, <<"h","u","s","b","a","n","d">>) THEN "HSBN"
    ELSE IF HasLetters(text, <<"o","t","h","e","r","s">>) THEN "OTHR"
    ELSE ""

\* C6: the relation extract_name_and_relation returns is FTHR, HSBN, OTHR or
\* the empty string: the empty string for an input that is no string, and
\* for a string FTHR when it spells "father" (in any case), else HSBN when it
\* spells "husband", else OTHR when it spells "others", else the empty
\* string, whether a name was extracted or not.
C6_Relation ==
    pc = "done" =>
        /\ output.relation \in {"FTHR", "HSBN", "OTHR", ""}
        /\ output.relation = IF input = None THEN "" ELSE RelationByPriority(input)

\* C6 happens: a text that spells both "husband" and "others", with no name
\* after them, is classified by the word of higher priority
C6_Witness ==
    /\ pc = "done"
    /\ input # None
    /\ HasLetters(input, <<"h","u","s","b","a","n","d">>)
    /\ HasLetters(input, <<"o","t","h","e","r","s">>)
    /\ output.name = <<>>
    /\ output.relation = "HSBN"

-----------------------------------------------------------------------------
(* The numeric cleanup.                                                    *)

AllDigits(t) == t # <<>> /\ \A i \in DOMAIN t : IsDigit(t[i])
\* a string of digits without its leading zeros
NoLeadingZeros(t) ==
    LET nz == {i \in DOMAIN t : t[i] # "0"}
    IN  IF nz = {} THEN <<"0">> ELSE SubSeq(t, SetMin(nz), Len(t))
\* the part of t before its first decimal point
BeforePoint(t) ==
    SubSeq(t, 1, SetMin({i \in 1..(Len(t) + 1) : i = Len(t) + 1 \/ t[i] = "."}) - 1)
DigitsBeforePoint(t) == SelectSeq(BeforePoint(t), IsDigit)

\* C7: clean_number of its own result is that result; a null or NaN yields
\* null; a string of digits yields the integer it writes; what follows the
\* first decimal point is dropped, not rounded ("12.9" and the float 12.9
\* yield 12); a string with no digit before its first decimal point ("abc")
\* yields null, never 0.
C7_CleanNumber ==
    /\ Len(output) = 2 => output[2] = output[1]
    /\ Len(output) >= 1 =>
        /\ pd_isna(input) => output[1] = NA
        /\ input = PyFloat(12, <<"9">>) => output[1] = 12
        /\ input.type = "str" =>
            /\ AllDigits(input.s) =>
                 output[1] # NA /\ IntToStr(output[1]) = NoLeadingZeros(input.s)
            /\ DigitsBeforePoint(input.s) = <<>> => output[1] = NA
            /\ DigitsBeforePoint(input.s) # <<>> =>
                 /\ output[1] # NA
                 /\ IntToStr(output[1]) = NoLeadingZeros(DigitsBeforePoint(input.s))
            /\ input.s = <<"1","2",".","9">> => output[1] = 12
            /\ input.s = <<"a","b","c">> => output[1] = NA

\* C7 happens: "12.9" was cleaned to 12, and 12 was cleaned again
C7_Witness ==
    /\ pc = "done"
    /\ input = PyStr(<<"1","2",".","9">>)
    /\ output = <<12, 12>>

-----------------------------------------------------------------------------
(* The house number.                                                       *)

HousePhrase == <<"H","o","u","s","e"," ","N","u","m","b","e","r">>
\* where the phrase stands in text followed by a colon or a space
HousePhraseAt(text) ==
    {i \in DOMAIN text :
        /\ At(text, i, HousePhrase)
        /\ i + Len(HousePhrase) <= Len(text)
        /\ text[i + Len(HousePhrase)] \in {":", " "}}
\* the value after the first of them, as it stands in the input
HouseValue(text) ==
    Strip(SubSeq(text, SetMin(HousePhraseAt(text)) + Len(HousePhrase) + 1, Len(text)))

\* the characters the cleanup of extract_house_number keeps
IsHouseChar(c) == IsAlpha(c) \/ IsDigit(c) \/ c \in {" ", "-"}

\* C8: for a text that holds "House Number", a colon or a space, and a
\* value, extract_house_number returns the value as the input has it:
\* unchanged when it is empty or "-", else without the spaces and hyphens at
\* its ends ("House Number: 12-A" yields "12-A"); a text without the phrase
\* yields the empty string.  (Stated for the values made of letters,
\* digits, spaces and hyphens.)
C8_HouseVerbatim ==
    (pc = "done" /\ input # None) =>
        IF HousePhraseAt(input) # {}
        THEN (\A k \in DOMAIN HouseValue(input) : IsHouseChar(HouseValue(input)[k])) =>
                output = IF HouseValue(input) \in {<<>>, <<"-">>}
                         THEN HouseValue(input)
                         ELSE StripChars(HouseValue(input), {" ", "-"})
        ELSE ~Contains(input, HousePhrase) => output = <<>>

-----------------------------------------------------------------------------
(* The age.                                                                *)

\* text holds, from i, the letters of token (in any case), whitespace, a
\* separator at s, whitespace, and a digit at d
LabelShape(text, token, i, s, d) ==
    /\ At(LowerStr(text), i, token)
    /\ s >= i + Len(token)
    /\ \A k \in (i + Len(token))..(s - 1) : IsSpace(text[k])
    /\ Lower(text[s]) \in {":", "!", "l", "+"}
    /\ d > s
    /\ \A k \in (s + 1)..(d - 1) : IsSpace(text[k])
LabelShapes(text, token) ==
    {m \in (DOMAIN text) \X (DOMAIN text) \X (DOMAIN text) :
        LabelShape(text, token, m[1], m[2], m[3])}
AgeShapes(text, token) ==
    {m \in LabelShapes(text, token) : IsDigit(text[m[3]])}
Leftmost(shapes) == CHOOSE m \in shapes : \A n \in shapes : m[1] <= n[1]
\* the run of characters of chars that starts at d
RunFrom(text, d, chars) ==
    SubSeq(text, d, SetMax({e \in d..Len(text) : \A k \in d..e : text[k] \in chars}))

\* C9, as amended: extract_age returns the integer written by the digits of
\* the leftmost place where the text holds "Age" (in any case, the "e"
\* included), optional whitespace, one of : ! l +, optional whitespace and
\* digits; it returns null when the text holds no such place, as for
\* "Ag: 45", and for an input that is no string.
C9_Age ==
    pc = "done" =>
        IF input = None THEN output = NA
        ELSE IF AgeShapes(input, <<"a","g","e">>) = {} THEN output = NA
        ELSE output =
                StrToInt(RunFrom(input, Leftmost(AgeShapes(input, <<"a","g","e">>))[3],
                                 DigitSet))

\* C9 happens: an age behind a separator read as the letter l
C9_Witness ==
    /\ pc = "done"
    /\ input # None
    /\ AgeShapes(input, <<"a","g","e">>) # {}
    /\ Lower(input[Leftmost(AgeShapes(input, <<"a","g","e">>))[2]]) = "l"
    /\ output = 45

\* C9 as the claim states it: the digits are also returned behind the token
\* "Ag" whose final "e" is missing ("Ag: 45" yields 45), and null is returned
\* only when neither token is followed by a separator and digits.
C9_MissingE ==
    (pc = "done" /\ input # None) =>
        LET shapes == AgeShapes(input, <<"a","g","e">>) \cup AgeShapes(input, <<"a","g">>)
        IN  IF shapes = {} THEN output = NA
            ELSE output = StrToInt(RunFrom(input, Leftmost(shapes)[3], DigitSet))

-----------------------------------------------------------------------------
(* The gender.                                                             *)

\* the places where the label "Gender" is followed by a separator and a word
GenderShapes(text) ==
    {m \in LabelShapes(text, <<"g","e","n","d","e","r">>) : IsWord(text[m[3]])}
\* the word behind the leftmost of them, in lower case
GenderLabelWord(text) ==
    LowerStr(RunFrom(text, Leftmost(GenderShapes(text))[3], WordSet))

\* C10: when the text holds the label "Gender", a separator and a word,
\* extract_gender decides by that word first: M when the word contains "ma",
\* else F when it contains "fe".  (Stated for the label in full; the claim
\* says the same of the label without its "de".)
C10_LabelWordFirst ==
    (pc = "done" /\ input # None /\ GenderShapes(input) # {}) =>
        /\ Contains(GenderLabelWord(input), <<"m","a">>) => output = "M"
        /\ (~Contains(GenderLabelWord(input), <<"m","a">>)
              /\ Contains(GenderLabelWord(input), <<"f","e">>)) => output = "F"

-----------------------------------------------------------------------------
(* The table builder: when it raises.                                      *)

\* C12 as stated: on a table whose rows carry the six raw columns, each a
\* string or null, with any number of rows, zero included, and also when the
\* filter leaves no row, process_raw_data returns a table and does not raise.
C12_ReturnsTable ==
    (pc = "done" /\ required # {}) => ~output.raised

-----------------------------------------------------------------------------
(* The table builder: the page and the box of a row.                       *)

\* C13: when the input table has page and box columns, every output row
\* carries the Box and the Page of one input row that the filter kept, its
\* extracted columns are those parsed from that same input row, and no two
\* output rows carry the same Box, whatever the order of the serial numbers
\* in the input.
C13_ProvenanceOfSameRow ==
    (pc = "done" /\ ~output.raised /\ {"page", "box"} \subseteq df.columns) =>
        /\ \A j \in DOMAIN output.rows :
              /\ output.rows[j].Box \in KeptPositions
              /\ output.rows[j].Page = df.rows[output.rows[j].Box].page
              /\ Extracted(output.rows[j]) =
                    Extracted(ParsedRecord(df.rows[output.rows[j].Box], 0))
        /\ \A j, k \in DOMAIN output.rows :
              output.rows[j].Box = output.rows[k].Box => j = k

\* C13 happens: the filter dropped the first row and the sort exchanged the
\* other two, which are of different pages
C13_Witness ==
    /\ pc = "done"
    /\ ~output.raised
    /\ {"page", "box"} \subseteq df.columns
    /\ KeptPositions = {2, 3}
    /\ Len(output.rows) = 2
    /\ output.rows[1].Box = 3 /\ output.rows[1].Page = 2
    /\ output.rows[1].Part_SNo = 1
    /\ output.rows[2].Box = 2 /\ output.rows[2].Page = 1
    /\ output.rows[2].Part_SNo = 5

=============================================================================
